---- MODULE Spec2Model ----
(***************************************************************************)
(* State-machine model of the Ollama chat UI (src/ollama-chat/app.py):     *)
(* the conversation store kept in st.session_state, the per-run handlers   *)
(* of the Streamlit script, and the streaming chat turn.                   *)
(*                                                                         *)
(* One action is one script run's handler (Streamlit runs the script top   *)
(* to bottom for each widget event), except the chat turn, whose stream is *)
(* consumed fragment by fragment: every fragment is a step, because the    *)
(* run can be stopped between two fragments by the next widget event.      *)
(*                                                                         *)
(* Text is a sequence of one-character strings.  A Python dict is a        *)
(* sequence of entries in insertion order.  Python indexes are 0-based and *)
(* are kept 0-based in the parameters of the actions.                      *)
(*                                                                         *)
(* Specifications: Spec (app.py), StoreSpec (app.py's sidebar and search   *)
(* tab from any store of up to MaxStore conversations), ClientSpec         *)
(* (ollama_client.py), ProdSpec (app_production.py) and ContextSpec (the   *)
(* message list a turn sends, on every input).                             *)
(***************************************************************************)
EXTENDS Integers, Sequences, FiniteSets, TLC

\* ------------------------------------------------------------------ bounds
MaxClock == 1        \* the wall clock reads 0..MaxClock (seconds)
MaxConvs == 2        \* conversations in the store
MaxMsgs == 3         \* messages in the store, all conversations together
MaxChunks == 1       \* content fragments one stream delivers
MaxEditing == 1      \* messages in edit mode at once

\* ------------------------------------------------------- program constants
TitleLimit == 50     \* add_message: content[:50]

Ellipsis == <<".", ".", ".">>
NewChatTitle == <<"N", "e", "w", " ", "C", "h", "a", "t">>
ErrorPrefix == <<"E", "r", "r", "o", "r", ":", " ">>
SorryText ==
    <<"S", "o", "r", "r", "y", ",", " ", "I", " ", "e", "n", "c", "o", "u",
      "n", "t", "e", "r", "e", "d", " ", "a", "n", " ", "e", "r", "r", "o",
      "r", ".">>

\* ------------------------------------------------------------------ inputs
ShortPrompt == <<"H", "i">>
LongPrompt == [i \in 1..(TitleLimit + 1) |-> "w"]
Prompts == {ShortPrompt, LongPrompt}
Chunks == {<<"x">>}
ErrorDescriptions == {<<"t">>}
EditTexts == {ShortPrompt}
SystemPrompts == {<<>>, <<"s">>}
Models == {"a", "b"}
Queries == {<<"h">>, <<"X">>}

DefaultId == <<"default", 0>>

VARIABLES
    conversations,   \* st.session_state.conversations
    active,          \* st.session_state.active_conversation
    editing,         \* the indexes i with st.session_state["editing_<i>"] true
    now,             \* datetime.now(), in seconds
    turn,            \* the script run that handles a chat prompt; in
                     \* ContextSpec its inputs and the context it builds
    lastOp,          \* history, read by no action: the widget handler that ran
                     \* last, its message index i (DeleteConversation: 1 when
                     \* the deleted conversation was the active one) and the
                     \* conversation id it was about
    session,         \* app_production.py: st.session_state.messages and the
                     \* script run that handles a chat prompt
    call             \* ollama_client.py: the OllamaClient call in progress

vars == <<conversations, active, editing, now, turn, lastOp, session, call>>

\* --------------------------------------------------------- dict operations
Keys(convs) == {convs[n].id : n \in DOMAIN convs}

IndexOf(convs, id) == CHOOSE n \in DOMAIN convs : convs[n].id = id

Get(convs, id) == convs[IndexOf(convs, id)]

\* d[id] = entry: an existing key keeps its place, a new key goes last.
Put(convs, id, entry) ==
    IF id \in Keys(convs)
    THEN [convs EXCEPT ![IndexOf(convs, id)] = entry]
    ELSE Append(convs, entry)

\* del d[id]
Del(convs, id) == SelectSeq(convs, LAMBDA e : e.id # id)

\* s[:n] for 0 <= n
Take(s, n) == SubSeq(s, 1, IF n < Len(s) THEN n ELSE Len(s))

\* ------------------------------------------------------------ conversation
FreshConversation(id, t) ==
    [id |-> id, messages |-> <<>>, created_at |-> t, last_modified |-> t,
     title |-> NewChatTitle]

init_conversation_state(convs, act, t) ==
    IF act \notin Keys(convs)
    THEN Put(convs, act, FreshConversation(act, t))
    ELSE convs

MessageId(role, content, t) == <<role, content, t>>

\* content[:50] with no marker
TitleOf_cut_only(content) == Take(content, TitleLimit)

TitleOf(content) ==
    IF Len(content) > TitleLimit
    THEN Take(content, TitleLimit) \o Ellipsis
    ELSE content

\* add_message with messages.insert(-1, message): the message goes before
\* the last one.
add_message_before_last(convs, conversation_id, role, content, t) ==
    LET conv == Get(convs, conversation_id)
        message == [role |-> role, content |-> content, timestamp |-> t,
                    id |-> MessageId(role, content, t)]
        msgs == IF conv.messages = <<>> THEN <<message>>
                ELSE Append(Append(Take(conv.messages,
                                        Len(conv.messages) - 1), message),
                            conv.messages[Len(conv.messages)])
    IN  Put(convs, conversation_id,
            [conv EXCEPT !.messages = msgs,
                         !.last_modified = t,
                         !.title = IF Len(msgs) = 1 THEN TitleOf(content)
                                   ELSE @])

\* add_message with messages.insert(0, message) for messages.append(message)
add_message_in_front(convs, conversation_id, role, content, t) ==
    LET conv == Get(convs, conversation_id)
        message == [role |-> role, content |-> content, timestamp |-> t,
                    id |-> MessageId(role, content, t)]
        msgs == <<message>> \o conv.messages
    IN  Put(convs, conversation_id,
            [conv EXCEPT !.messages = msgs,
                         !.last_modified = t,
                         !.title = IF Len(msgs) = 1 THEN TitleOf(content)
                                   ELSE @])

add_message(convs, conversation_id, role, content, t) ==
    LET conv == Get(convs, conversation_id)
        message == [role |-> role, content |-> content, timestamp |-> t,
                    id |-> MessageId(role, content, t)]
        msgs == Append(conv.messages, message)
    IN  Put(convs, conversation_id,
            [conv EXCEPT !.messages = msgs,
                         !.last_modified = t,
                         !.title = IF Len(msgs) = 1 THEN TitleOf(content)
                                   ELSE @])

NoTurn ==
    [pc |-> "idle", mode |-> "none", prompt |-> <<>>,
     system_prompt |-> <<>>, models |-> <<>>,
     selected_model |-> "", idx |-> 0, full_response |-> <<>>,
     stream |-> "none", responses |-> <<>>, requests |-> <<>>]

\* app_production.py before the first prompt: st.session_state.messages = []
NoSession ==
    [messages |-> <<>>, pc |-> "idle", full_response |-> <<>>,
     stream |-> "none", request |-> <<>>]

\* No OllamaClient call is in progress.
NoCall == [op |-> "none", pc |-> "none"]

Init ==
    /\ now = 0
    /\ active = DefaultId
    /\ conversations = init_conversation_state(<<>>, DefaultId, 0)
    /\ editing = {}
    /\ turn = NoTurn
    /\ lastOp = [op |-> "init", i |-> 0, id |-> DefaultId]
    /\ session = NoSession
    /\ call = NoCall

\* ------------------------------------------------------------ pure handlers
\* "New Conversation": f"chat_{datetime.now().strftime('%Y%m%d_%H%M%S')}"
new_conversation_id(t) == <<"chat", t>>

new_conversation(convs, t) ==
    Put(convs, new_conversation_id(t),
        FreshConversation(new_conversation_id(t), t))

\* The delete button without the reassignment of active_conversation.
delete_conversation_keeps_active(convs, act, conv_id) ==
    IF Len(convs) > 1 THEN <<Del(convs, conv_id), act>> ELSE <<convs, act>>

\* The delete button with the reassignment of active_conversation outside
\* its if: the pointer goes to the first key whichever entry was deleted.
delete_conversation_resets_active(convs, act, conv_id) ==
    IF Len(convs) > 1
    THEN <<Del(convs, conv_id), Del(convs, conv_id)[1].id>>
    ELSE <<convs, act>>

\* The delete button: <<conversations, active_conversation>> after it.
delete_conversation(convs, act, conv_id) ==
    IF Len(convs) > 1
    THEN LET rest == Del(convs, conv_id)
         IN  <<rest, IF conv_id = act THEN rest[1].id ELSE act>>
    ELSE <<convs, act>>

\* What the run of the delete button shows for the click: st.rerun() after
\* a deletion; with one conversation the handler has no else branch, no
\* st.error and no exception.
delete_signal(convs, conv_id) == IF Len(convs) > 1 THEN "rerun" ELSE "none"

\* "Clear All": conversations = {} and init_conversation_state()
clear_all(act, t) == init_conversation_state(<<>>, act, t)

\* Regenerate keeping the tail: messages[i:]
regenerate_keeps_tail(messages, i) == SubSeq(messages, i + 1, Len(messages))

\* Regenerate keeping message i: messages[:i + 1]
regenerate_keeps_message(messages, i) == Take(messages, i + 1)

\* "Regenerate" on message i: messages[:i]
regenerate(messages, i) == Take(messages, i)

\* Save that also drops the messages after the edited one.
save_edit_cascade(messages, i, edited_content) ==
    Take([messages EXCEPT ![i + 1].content = edited_content], i + 1)

\* "Save" of the edit of message i: message["content"] = edited_content
save_edit(messages, i, edited_content) ==
    [messages EXCEPT ![i + 1].content = edited_content]

\* str.lower(), on the letters the inputs use
Letters ==
    [upper |-> <<"H", "W", "X", "Y", "E", "S", "I", "N", "C">>,
     lower |-> <<"h", "w", "x", "y", "e", "s", "i", "n", "c">>]
LowerChar(c) ==
    IF \E n \in DOMAIN Letters.upper : Letters.upper[n] = c
    THEN Letters.lower[CHOOSE n \in DOMAIN Letters.upper :
                          Letters.upper[n] = c]
    ELSE c
ToLower(s) == [n \in DOMAIN s |-> LowerChar(s[n])]

\* q in s
Contains(s, q) ==
    \E k \in 0..(Len(s) - Len(q)) : SubSeq(s, k + 1, k + Len(q)) = q

\* The test without .lower(): query in msg['content']
ResultsOf_case_sensitive(conv, query) ==
    LET hits == SelectSeq(conv.messages,
                          LAMBDA m : Contains(m.content, query))
    IN  [n \in DOMAIN hits |->
            [conversation |-> conv.id, message |-> hits[n],
             context |-> conv.title]]

\* The matches of one conversation, in message order.
ResultsOf(conv, query) ==
    LET hits == SelectSeq(conv.messages,
                          LAMBDA m : Contains(ToLower(m.content), ToLower(query)))
    IN  [n \in DOMAIN hits |->
            [conversation |-> conv.id, message |-> hits[n],
             context |-> conv.title]]

RECURSIVE search_messages(_, _)
search_messages(convs, query) ==
    IF convs = <<>> THEN <<>>
    ELSE ResultsOf(Head(convs), query) \o search_messages(Tail(convs), query)

\* ---------------------------------------------------------------- the turn
RoleContent(messages) ==
    [n \in DOMAIN messages |->
        [role |-> messages[n].role, content |-> messages[n].content]]

SystemMessage(system_prompt) ==
    IF system_prompt # <<>>
    THEN <<[role |-> "system", content |-> system_prompt]>>
    ELSE <<>>

\* Single mode; messages is the active conversation's list, which
\* add_message("user", prompt) has just appended to.
single_messages_for_model(system_prompt, messages) ==
    SystemMessage(system_prompt) \o RoleContent(messages)

\* Compare mode, for each model.
compare_messages_for_model(system_prompt, messages, prompt) ==
    (SystemMessage(system_prompt) \o RoleContent(messages))
        \o <<[role |-> "user", content |-> prompt]>>

\* responses = {model: full_response}
SetResponse_fresh_dict(responses, model, text) ==
    <<[model |-> model, text |-> text]>>

\* responses[model] = full_response
SetResponse(responses, model, text) ==
    IF \E n \in DOMAIN responses : responses[n].model = model
    THEN [responses EXCEPT
            ![CHOOSE n \in DOMAIN responses : responses[n].model = model] =
                [model |-> model, text |-> text]]
    ELSE Append(responses, [model |-> model, text |-> text])

\* responses.get(selected_model, list(responses.values())[0])
saved_response(responses, selected_model) ==
    IF \E n \in DOMAIN responses : responses[n].model = selected_model
    THEN responses[CHOOSE n \in DOMAIN responses :
                       responses[n].model = selected_model].text
    ELSE responses[1].text

\* The selections st.multiselect can return: distinct models, in order.
CompareSelections ==
    {s \in UNION {[1..n -> Models] : n \in 0..Cardinality(Models)} :
        \A j, k \in DOMAIN s : j # k => s[j] # s[k]}

RECURSIVE TotalMessages(_)
TotalMessages(convs) ==
    IF convs = <<>> THEN 0
    ELSE Len(Head(convs).messages) + TotalMessages(Tail(convs))

\* ------------------------------------------------------------------ actions
\* Widget handlers that also run while a turn's run is streaming.
Idle_or_streaming == turn.pc \in {"idle", "streaming"}

\* No run is handling a prompt: a widget event starts the next run.
Idle == turn.pc = "idle"

\* The script run up to line 183: init_conversation_state()
RunStart == init_conversation_state(conversations, active, now)

\* current_conv['messages'] of the run
ActiveMessages == Get(RunStart, active).messages

NewConversation ==
    /\ Idle
    /\ \/ new_conversation_id(now) \in Keys(RunStart)
       \/ Len(RunStart) < MaxConvs
    /\ conversations' = new_conversation(RunStart, now)
    /\ active' = new_conversation_id(now)
    /\ lastOp' = [op |-> "NewConversation", i |-> 0,
                  id |-> new_conversation_id(now)]
    /\ UNCHANGED <<editing, now, turn>>
    /\ UNCHANGED <<session, call>>

SelectConversation(conv_id) ==
    /\ Idle
    /\ conv_id \in Keys(RunStart)
    /\ conv_id # active
    /\ active' = conv_id
    /\ conversations' = RunStart
    /\ lastOp' = [op |-> "SelectConversation", i |-> 0, id |-> conv_id]
    /\ UNCHANGED <<editing, now, turn>>
    /\ UNCHANGED <<session, call>>

\* The button is drawn for every listed conversation; on the only
\* conversation of the store it changes nothing.
DeleteConversation(conv_id) ==
    /\ Idle
    /\ conv_id \in Keys(RunStart)
    /\ conversations' = delete_conversation(RunStart, active, conv_id)[1]
    /\ active' = delete_conversation(RunStart, active, conv_id)[2]
    /\ lastOp' = [op |-> "DeleteConversation",
                  i |-> IF conv_id = active THEN 1 ELSE 0, id |-> conv_id]
    /\ UNCHANGED <<editing, now, turn>>
    /\ UNCHANGED <<session, call>>

\* The body of the Clear All handler (lines 456-458): the button and its
\* confirmation checkbox are both true in the run.
ClearAll ==
    /\ Idle
    /\ conversations' = clear_all(active, now)
    /\ lastOp' = [op |-> "ClearAll", i |-> 0, id |-> active]
    /\ UNCHANGED <<active, editing, now, turn>>
    /\ UNCHANGED <<session, call>>

GoToSearchResult(query) ==
    /\ Idle
    /\ \E n \in DOMAIN search_messages(RunStart, query) :
          active' = search_messages(RunStart, query)[n].conversation
    /\ conversations' = RunStart
    /\ lastOp' = [op |-> "GoToSearchResult", i |-> 0, id |-> active']
    /\ UNCHANGED <<editing, now, turn>>
    /\ UNCHANGED <<session, call>>

Edit(i) ==
    /\ Idle
    /\ i < Len(ActiveMessages)
    /\ Cardinality(editing \cup {i}) <= MaxEditing
    /\ editing' = editing \cup {i}
    /\ lastOp' = [op |-> "Edit", i |-> i, id |-> active]
    /\ conversations' = RunStart
    /\ UNCHANGED <<active, now, turn>>
    /\ UNCHANGED <<session, call>>

SaveEdit(i, edited_content) ==
    /\ Idle
    /\ i \in editing
    /\ i < Len(ActiveMessages)
    /\ conversations' =
          Put(RunStart, active,
              [Get(RunStart, active) EXCEPT
                  !.messages = save_edit(@, i, edited_content)])
    /\ editing' = editing \ {i}
    /\ lastOp' = [op |-> "SaveEdit", i |-> i, id |-> active]
    /\ UNCHANGED <<active, now, turn>>
    /\ UNCHANGED <<session, call>>

CancelEdit(i) ==
    /\ Idle
    /\ i \in editing
    /\ i < Len(ActiveMessages)
    /\ editing' = editing \ {i}
    /\ lastOp' = [op |-> "CancelEdit", i |-> i, id |-> active]
    /\ conversations' = RunStart
    /\ UNCHANGED <<active, now, turn>>
    /\ UNCHANGED <<session, call>>

Regenerate(i) ==
    /\ Idle
    /\ i < Len(ActiveMessages)
    /\ ActiveMessages[i + 1].role = "assistant"
    /\ conversations' =
          Put(RunStart, active,
              [Get(RunStart, active) EXCEPT
                  !.messages = regenerate(@, i)])
    /\ lastOp' = [op |-> "Regenerate", i |-> i, id |-> active]
    /\ UNCHANGED <<active, editing, now, turn>>
    /\ UNCHANGED <<session, call>>

\* st.chat_input: add_message("user", prompt), then the first chat_stream call
\* of the branch taken.  The generator's request goes out with it.
Prompt(prompt, system_prompt, compare_mode, compare_models, selected_model) ==
    /\ Idle
    /\ TotalMessages(RunStart) + 2 <= MaxMsgs
    /\ LET convs == add_message(RunStart, active, "user", prompt, now)
           messages == Get(convs, active).messages
           compare == compare_mode /\ compare_models # <<>>
       IN  /\ conversations' = convs
           /\ turn' =
                IF compare
                THEN [pc |-> "streaming", mode |-> "compare",
                      prompt |-> prompt, system_prompt |-> system_prompt,
                      models |-> compare_models,
                      selected_model |-> selected_model, idx |-> 1,
                      full_response |-> <<>>, stream |-> "open",
                      responses |-> <<>>,
                      requests |->
                        <<[model |-> compare_models[1],
                           messages |-> compare_messages_for_model(
                                            system_prompt, messages, prompt)]>>]
                ELSE [pc |-> "streaming", mode |-> "single",
                      prompt |-> prompt, system_prompt |-> system_prompt,
                      models |-> <<selected_model>>,
                      selected_model |-> selected_model, idx |-> 1,
                      full_response |-> <<>>, stream |-> "open",
                      responses |-> <<>>,
                      requests |->
                        <<[model |-> selected_model,
                           messages |-> single_messages_for_model(
                                            system_prompt, messages)]>>]
    /\ lastOp' = [op |-> "Prompt", i |-> Len(ActiveMessages), id |-> active]
    /\ UNCHANGED <<active, editing, now>>
    /\ UNCHANGED <<session, call>>

Streaming == turn.pc = "streaming"

\* chat_stream yields a content fragment: full_response += chunk
StreamChunk(chunk) ==
    /\ Streaming
    /\ turn.stream = "open"
    /\ Len(turn.full_response) < MaxChunks
    /\ turn' = [turn EXCEPT !.full_response = @ \o chunk]
    /\ UNCHANGED <<conversations, active, editing, now, lastOp>>
    /\ UNCHANGED <<session, call>>

\* requests.RequestException inside chat_stream: it yields "Error: <e>",
\* its last fragment.
StreamTransportError(e) ==
    /\ Streaming
    /\ turn.stream = "open"
    /\ turn' = [turn EXCEPT !.full_response = @ \o (ErrorPrefix \o e),
                            !.stream = "errored"]
    /\ UNCHANGED <<conversations, active, editing, now, lastOp>>
    /\ UNCHANGED <<session, call>>

\* The turn's last statement in compare mode:
\* add_message("assistant", responses.get(selected_model, ...))
compare_commit(convs, act, responses, selected_model, t) ==
    add_message(convs, act, "assistant",
                saved_response(responses, selected_model), t)

\* The generator is exhausted: the for loop over chat_stream ends.
StreamEnd ==
    /\ Streaming
    /\ turn.stream \in {"open", "errored"}
    /\ IF turn.mode = "single"
       THEN /\ conversations' =
                  add_message(conversations, active, "assistant",
                              turn.full_response, now)
            /\ turn' = [turn EXCEPT !.pc = "done", !.stream = "ended"]
       ELSE LET model == turn.models[turn.idx]
                responses == SetResponse(turn.responses, model,
                                         turn.full_response)
            IN  IF turn.idx < Len(turn.models)
                THEN /\ conversations' = conversations
                     /\ turn' =
                          [turn EXCEPT
                             !.responses = responses,
                             !.idx = @ + 1,
                             !.full_response = <<>>,
                             !.stream = "open",
                             !.requests =
                                Append(@,
                                  [model |-> turn.models[turn.idx + 1],
                                   messages |-> compare_messages_for_model(
                                      turn.system_prompt,
                                      Get(conversations, active).messages,
                                      turn.prompt)])]
                ELSE /\ conversations' =
                          compare_commit(conversations, active, responses,
                                         turn.selected_model, now)
                     /\ turn' = [turn EXCEPT !.responses = responses,
                                             !.pc = "done",
                                             !.stream = "ended"]
    /\ UNCHANGED <<active, editing, now, lastOp>>
    /\ UNCHANGED <<session, call>>

\* An exception that is no requests.RequestException leaves chat_stream
\* (json.loads on a malformed line, a chunk that is no object).  Single mode
\* catches it; compare mode has no try, and the script run dies.
StreamRaise ==
    /\ Streaming
    /\ turn.stream = "open"
    /\ IF turn.mode = "single"
       THEN /\ conversations' =
                  add_message(conversations, active, "assistant", SorryText,
                              now)
            /\ turn' = [turn EXCEPT !.full_response = SorryText,
                                    !.pc = "done", !.stream = "raised"]
       ELSE /\ conversations' = conversations
            /\ turn' = [turn EXCEPT !.pc = "failed", !.stream = "raised"]
    /\ UNCHANGED <<active, editing, now, lastOp>>
    /\ UNCHANGED <<session, call>>

\* A widget event while the run is streaming: Streamlit stops the run at its
\* next element write and starts the next run.
Abandon ==
    /\ Streaming
    /\ turn' = NoTurn
    /\ UNCHANGED <<conversations, active, editing, now, lastOp>>
    /\ UNCHANGED <<session, call>>

\* The run that handled the prompt reaches the end of the script, or dies.
RunEnd ==
    /\ turn.pc \in {"done", "failed"}
    /\ turn' = NoTurn
    /\ UNCHANGED <<conversations, active, editing, now, lastOp>>
    /\ UNCHANGED <<session, call>>

\* datetime.now() moves on
Tick ==
    /\ now < MaxClock
    /\ turn.pc \notin {"done", "failed"}
    /\ now' = now + 1
    /\ UNCHANGED <<conversations, active, editing, turn, lastOp>>
    /\ UNCHANGED <<session, call>>

Next ==
    \/ Tick
    \/ NewConversation
    \/ \E conv_id \in Keys(conversations) : SelectConversation(conv_id)
    \/ \E conv_id \in Keys(conversations) : DeleteConversation(conv_id)
    \/ ClearAll
    \/ \E query \in Queries : GoToSearchResult(query)
    \/ \E i \in 0..(MaxMsgs - 1) : Edit(i)
    \/ \E i \in 0..(MaxMsgs - 1), text \in EditTexts : SaveEdit(i, text)
    \/ \E i \in 0..(MaxMsgs - 1) : CancelEdit(i)
    \/ \E i \in 0..(MaxMsgs - 1) : Regenerate(i)
    \/ \E prompt \in Prompts, system_prompt \in SystemPrompts,
          compare_mode \in BOOLEAN, compare_models \in CompareSelections,
          selected_model \in Models :
          Prompt(prompt, system_prompt, compare_mode, compare_models,
                 selected_model)
    \/ \E chunk \in Chunks : StreamChunk(chunk)
    \/ \E e \in ErrorDescriptions : StreamTransportError(e)
    \/ StreamRaise
    \/ StreamEnd
    \/ Abandon
    \/ RunEnd

Spec == Init /\ [][Next]_vars

\* ------------------------------------------------- the sidebar on any store
\* The conversation list and the search tab, from every store a session can
\* have built with up to MaxStore conversations: default_0 and the
\* conversations of successive seconds, in creation order, each with no
\* message (logs[n] = 0), a prompt (1), or a prompt and its response (2).
MaxStore == 3        \* conversations in a store drawn as initial state

RECURSIVE BuildStore(_, _)
BuildStore(n, logs) ==
    IF n = 0 THEN <<>>
    ELSE LET t == IF n = 1 THEN 0 ELSE n - 2
             id == IF n = 1 THEN DefaultId ELSE new_conversation_id(t)
             fresh == Put(BuildStore(n - 1, logs), id,
                          FreshConversation(id, t))
             asked == IF logs[n] >= 1
                      THEN add_message(fresh, id, "user", ShortPrompt, t)
                      ELSE fresh
         IN  IF logs[n] = 2
             THEN add_message(asked, id, "assistant", <<"x">>, t)
             ELSE asked

StoreInit ==
    /\ \E n \in 1..MaxStore :
          /\ \E logs \in [1..n -> 0..2] : conversations = BuildStore(n, logs)
          /\ \E k \in 1..n : active = conversations[k].id
          /\ now = IF n = 1 THEN 0 ELSE n - 2
    /\ editing = {}
    /\ turn = NoTurn
    /\ lastOp = [op |-> "init", i |-> 0, id |-> DefaultId]
    /\ session = NoSession
    /\ call = NoCall

StoreNext ==
    \/ \E conv_id \in Keys(conversations) : SelectConversation(conv_id)
    \/ \E conv_id \in Keys(conversations) : DeleteConversation(conv_id)
    \/ \E query \in Queries : GoToSearchResult(query)

StoreSpec == StoreInit /\ [][StoreNext]_vars

\* ======================================================== ollama_client.py
\* ------------------------------------------------------------- JSON values
\* A JSON value as Python holds it: [t, v] with t its type.  An object is
\* the sequence of its [k, x] pairs, a list the sequence of its items, a
\* string a sequence of characters.
Null == [t |-> "null", v |-> 0]
Num(n) == [t |-> "num", v |-> n]
Str(s) == [t |-> "str", v |-> s]
Lst(items) == [t |-> "list", v |-> items]
Obj(pairs) == [t |-> "obj", v |-> pairs]
Pair(k, x) == [k |-> k, x |-> x]

\* The keys of the JSON objects the client reads and builds.
K ==
    [models |-> <<"m", "o", "d", "e", "l", "s">>,
     name |-> <<"n", "a", "m", "e">>,
     message |-> <<"m", "e", "s", "s", "a", "g", "e">>,
     content |-> <<"c", "o", "n", "t", "e", "n", "t">>,
     eval_count |-> <<"e", "v", "a", "l", "_", "c", "o", "u", "n", "t">>,
     eval_duration |->
        <<"e", "v", "a", "l", "_", "d", "u", "r", "a", "t", "i", "o", "n">>,
     total_duration |->
        <<"t", "o", "t", "a", "l", "_", "d", "u", "r", "a", "t", "i", "o", "n">>,
     load_duration |->
        <<"l", "o", "a", "d", "_", "d", "u", "r", "a", "t", "i", "o", "n">>,
     prompt_eval_count |->
        <<"p", "r", "o", "m", "p", "t", "_", "e", "v", "a", "l", "_", "c", "o", "u", "n", "t">>,
     prompt_eval_duration |->
        <<"p", "r", "o", "m", "p", "t", "_", "e", "v", "a", "l", "_", "d", "u", "r", "a", "t", "i", "o", "n">>,
     error |-> <<"e", "r", "r", "o", "r">>,
     embedding |-> <<"e", "m", "b", "e", "d", "d", "i", "n", "g">>,
     size |-> <<"s", "i", "z", "e">>,
     details |-> <<"d", "e", "t", "a", "i", "l", "s">>,
     format |-> <<"f", "o", "r", "m", "a", "t">>,
     family |-> <<"f", "a", "m", "i", "l", "y">>,
     parameter_size |->
        <<"p", "a", "r", "a", "m", "e", "t", "e", "r", "_", "s", "i", "z", "e">>,
     quantization_level |->
        <<"q", "u", "a", "n", "t", "i", "z", "a", "t", "i", "o", "n", "_", "l", "e", "v", "e", "l">>,
     modified_at |->
        <<"m", "o", "d", "i", "f", "i", "e", "d", "_", "a", "t">>,
     template |-> <<"t", "e", "m", "p", "l", "a", "t", "e">>,
     modelfile |-> <<"m", "o", "d", "e", "l", "f", "i", "l", "e">>]


\* ------------------------------------------------------- Python exceptions
\* request: the exception is a requests.RequestException.
Exc(type, request, text) == [type |-> type, request |-> request, text |-> text]
NoExc == Exc("none", FALSE, <<>>)

\* The outcome of an expression or a call: a value, or an exception raised.
Ok(v) == [ok |-> TRUE, val |-> v, exc |-> NoExc]
Raise(x) == [ok |-> FALSE, val |-> Null, exc |-> x]

\* str(e) of the interpreter's own TypeError, AttributeError and ValueError
\* messages; their wording is left open.
InterpreterText == <<"?">>

\* str(KeyError(k)) is repr(k)
KeyError(k) == Exc("KeyError", FALSE, (<<"'">> \o k) \o <<"'">>)
TypeError == Exc("TypeError", FALSE, InterpreterText)
AttributeError == Exc("AttributeError", FALSE, InterpreterText)

HasKey(x, k) == \E n \in DOMAIN x.v : x.v[n].k = k
Lookup(x, k) == x.v[CHOOSE n \in DOMAIN x.v : x.v[n].k = k].x

\* x[k], k a string
py_index(x, k) ==
    IF x.t = "obj"
    THEN IF HasKey(x, k) THEN Ok(Lookup(x, k)) ELSE Raise(KeyError(k))
    ELSE Raise(TypeError)

\* x.get(k, d)
py_get(x, k, d) ==
    IF x.t = "obj"
    THEN Ok(IF HasKey(x, k) THEN Lookup(x, k) ELSE d)
    ELSE Raise(AttributeError)

\* -------------------------------------------------------------------- HTTP
\* What requests.get / requests.post does: it raises a RequestException
\* (connection refused, timeout) or returns a response.
ServerErrorText == <<"5", "0", "0">>
NetworkError(e) == [kind |-> "error", e |-> e, status |-> 0,
                    body |-> [json |-> FALSE, value |-> Null]]
Response(status, body) == [kind |-> "response", e |-> <<>>,
                           status |-> status, body |-> body]
JsonBody(value) == [json |-> TRUE, value |-> value]
NotJson == [json |-> FALSE, value |-> Null]

Replies(values) ==
    {NetworkError(e) : e \in ErrorDescriptions}
        \cup {Response(500, NotJson), Response(200, NotJson)}
        \cup {Response(200, JsonBody(value)) : value \in values}

\* The installed requests: since 2.27 response.json() raises
\* requests.exceptions.JSONDecodeError, a RequestException; before, the json
\* module's ValueError.
Builds == {"requests>=2.27", "requests<2.27"}

\* response.raise_for_status()
raise_for_status(reply) ==
    IF reply.status >= 400
    THEN Raise(Exc("HTTPError", TRUE, ServerErrorText))
    ELSE Ok(Null)

\* response.json()
response_json(reply, build) ==
    IF reply.body.json THEN Ok(reply.body.value)
    ELSE Raise(Exc("JSONDecodeError", build = "requests>=2.27",
                   InterpreterText))

\* requests.get/post, raise_for_status() and json() in a row
fetch_json(reply, build) ==
    IF reply.kind = "error"
    THEN Raise(Exc("ConnectionError", TRUE, reply.e))
    ELSE IF ~raise_for_status(reply).ok THEN raise_for_status(reply)
    ELSE response_json(reply, build)

\* f"Error: {str(e)}"
ErrorString(exc) == Str(ErrorPrefix \o exc.text)

\* ------------------------------------------------------------- list_models
\* [model["name"] for model in models]
names_of(models) ==
    IF models.t = "list"
    THEN LET r == [n \in DOMAIN models.v |-> py_index(models.v[n], K.name)]
         IN  IF \E n \in DOMAIN r : ~r[n].ok
             THEN r[CHOOSE n \in DOMAIN r :
                       ~r[n].ok /\ \A m \in 1..(n - 1) : r[m].ok]
             ELSE Ok([n \in DOMAIN r |-> r[n].val])
    ELSE IF models.t \in {"obj", "str"}
         THEN IF models.v = <<>> THEN Ok(<<>>) ELSE Raise(TypeError)
         ELSE Raise(TypeError)

list_models(reply, build) ==
    LET j == fetch_json(reply, build)
        models == py_get(j.val, K.models, Lst(<<>>))
    IN  IF ~j.ok THEN (IF j.exc.request THEN Ok(<<>>) ELSE j)
        ELSE IF ~models.ok THEN models
        ELSE names_of(models.val)

chat(reply, build) ==
    LET j == fetch_json(reply, build)
        message == py_index(j.val, K.message)
    IN  IF ~j.ok
        THEN (IF j.exc.request THEN Ok(ErrorString(j.exc)) ELSE j)
        ELSE IF ~message.ok THEN message
        ELSE py_index(message.val, K.content)

\* ------------------------------------------------------------- chat_stream
MaxLines == 2        \* lines one streamed response delivers

\* bool(x)
py_truthy(x) ==
    IF x.t = "null" THEN FALSE
    ELSE IF x.t = "num" THEN x.v # 0
    ELSE x.v # <<>>

\* A line of response.iter_lines(): empty (a keep-alive), or bytes that are
\* JSON or are not.
EmptyLine == [empty |-> TRUE, json |-> FALSE, value |-> Null]
BadLine == [empty |-> FALSE, json |-> FALSE, value |-> Null]
JsonLine(value) == [empty |-> FALSE, json |-> TRUE, value |-> value]
ChunkOf(content) ==
    Obj(<<Pair(K.message, Obj(<<Pair(K.content, Str(content))>>))>>)

StreamLines ==
    {EmptyLine, BadLine,
     JsonLine(ChunkOf(<<"x">>)), JsonLine(ChunkOf(<<"y">>)),
     JsonLine(ChunkOf(<<>>)), JsonLine(Obj(<<>>)), JsonLine(Lst(<<>>)),
     JsonLine(Obj(<<Pair(K.message, Str(<<"x">>))>>))}

ChatValues ==
    {ChunkOf(<<"x">>), ChunkOf(<<"y">>), Obj(<<>>), Lst(<<>>),
     Obj(<<Pair(K.message, Null)>>)}

\* The body of the for loop on one line: Ok(fragment) when it yields,
\* Ok(Null) when it yields nothing, or the exception raised.
chat_stream_line(line) ==
    IF line.empty THEN Ok(Null)
    ELSE IF ~line.json
         THEN Raise(Exc("JSONDecodeError", FALSE, InterpreterText))
    ELSE LET message == py_get(line.value, K.message, Obj(<<>>))
             content == py_get(message.val, K.content, Null)
         IN  IF ~message.ok THEN message
             ELSE IF ~content.ok THEN content
             ELSE IF py_truthy(content.val) THEN content
             ELSE Ok(Null)

\* chat_stream whose except clause raises again
chat_stream_except_reraise(exc) ==
    [pc |-> "raised", fragment |-> Null]

\* An exception inside the try block of chat_stream: the except clause
\* yields the error fragment for a RequestException; any other leaves the
\* generator.
chat_stream_except(exc) ==
    IF exc.request
    THEN [pc |-> "errored", fragment |-> ErrorString(exc)]
    ELSE [pc |-> "raised", fragment |-> Null]

NoCallIn == call.op = "none"

\* The consumer's first next(): requests.post and raise_for_status().
ChatStreamStart(model, reply) ==
    /\ NoCallIn
    /\ LET r == IF reply.kind = "error"
                THEN Raise(Exc("ConnectionError", TRUE, reply.e))
                ELSE raise_for_status(reply)
           x == chat_stream_except(r.exc)
       IN  call' =
             IF r.ok
             THEN [op |-> "chat_stream", pc |-> "open", model |-> model,
                   lines |-> <<>>, out |-> <<>>, exc |-> NoExc]
             ELSE [op |-> "chat_stream", pc |-> x.pc, model |-> model,
                   lines |-> <<>>,
                   out |-> IF x.pc = "errored" THEN <<x.fragment>>
                           ELSE <<>>,
                   exc |-> r.exc]
    /\ UNCHANGED <<conversations, active, editing, now, turn, lastOp, session>>

\* iter_lines() delivers a line.
ChatStreamLine(line) ==
    /\ call.op = "chat_stream"
    /\ call.pc = "open"
    /\ Len(call.lines) < MaxLines
    /\ LET r == chat_stream_line(line)
           x == chat_stream_except(r.exc)
       IN  call' =
             IF r.ok
             THEN [call EXCEPT
                     !.lines = Append(@, line),
                     !.out = IF r.val = Null THEN @ ELSE Append(@, r.val)]
             ELSE [call EXCEPT
                     !.lines = Append(@, line),
                     !.pc = x.pc,
                     !.out = IF x.pc = "errored" THEN Append(@, x.fragment)
                             ELSE @,
                     !.exc = r.exc]
    /\ UNCHANGED <<conversations, active, editing, now, turn, lastOp, session>>

\* iter_lines() raises: the connection broke or timed out mid-stream.
ChatStreamFail(e) ==
    /\ call.op = "chat_stream"
    /\ call.pc = "open"
    /\ LET exc == Exc("ConnectionError", TRUE, e)
           x == chat_stream_except(exc)
       IN  call' = [call EXCEPT
                      !.pc = x.pc,
                      !.out = IF x.pc = "errored" THEN Append(@, x.fragment)
                              ELSE @,
                      !.exc = exc]
    /\ UNCHANGED <<conversations, active, editing, now, turn, lastOp, session>>

\* The response is exhausted, or the consumer resumes the generator after
\* the error fragment: the generator returns.
ChatStreamEnd ==
    /\ call.op = "chat_stream"
    /\ call.pc \in {"open", "errored"}
    /\ call' = [call EXCEPT !.pc = "ended"]
    /\ UNCHANGED <<conversations, active, editing, now, turn, lastOp, session>>

\* ------------------------------------------------- calls that are one step
TagsValues ==
    {Obj(<<Pair(K.models,
                Lst(<<Obj(<<Pair(K.name, Str(<<"b">>))>>),
                      Obj(<<Pair(K.name, Str(<<"a">>))>>)>>))>>),
     Obj(<<Pair(K.models, Lst(<<>>))>>),
     Obj(<<>>),
     Obj(<<Pair(K.models, Null)>>),
     Obj(<<Pair(K.models,
                Lst(<<Obj(<<Pair(K.name, Str(<<"a">>))>>),
                      Obj(<<>>)>>))>>),
     Lst(<<>>)}

\* The caller has the call's outcome.
Finished(op, r, reply, build) ==
    [op |-> op, pc |-> IF r.ok THEN "returned" ELSE "raised", result |-> r,
     reply |-> reply, build |-> build]

ListModels(reply, build) ==
    /\ NoCallIn
    /\ call' = Finished("list_models", list_models(reply, build), reply,
                        build)
    /\ UNCHANGED <<conversations, active, editing, now, turn, lastOp, session>>

Chat(reply, build) ==
    /\ NoCallIn
    /\ call' = Finished("chat", chat(reply, build), reply, build)
    /\ UNCHANGED <<conversations, active, editing, now, turn, lastOp, session>>

\* ---------------------------------------------------------- compare_models
MaxCompare == 2      \* models in one compare_models call

ModelLists == UNION {[1..n -> Models] : n \in 0..MaxCompare}

\* responses[model] = response
responses_set(responses, model, response) ==
    IF \E n \in DOMAIN responses : responses[n].model = model
    THEN [responses EXCEPT
            ![CHOOSE n \in DOMAIN responses : responses[n].model = model] =
                [model |-> model, response |-> response]]
    ELSE Append(responses, [model |-> model, response |-> response])

\* The loop body with a stale loop variable: the key is the last model.
compare_collect_last_model(responses, futures, n) ==
    LET r == futures[n].result
    IN  responses_set(responses, futures[Len(futures)].model,
                      IF r.ok THEN r.val ELSE ErrorString(r.exc))

\* The body of "for future in futures" on the n-th future, which is done:
\* model = futures[future]; responses[model] = future.result(), or the
\* error string when result() raises.
compare_collect(responses, futures, n) ==
    LET r == futures[n].result
    IN  responses_set(responses, futures[n].model,
                      IF r.ok THEN r.val ELSE ErrorString(r.exc))

\* ThreadPoolExecutor(max_workers=len(models)) raises ValueError for 0;
\* else every model's chat call is submitted, each to its own worker.
CompareModels(models) ==
    /\ NoCallIn
    /\ call' =
          IF models = <<>>
          THEN [op |-> "compare_models", pc |-> "raised", models |-> models,
                futures |-> <<>>, collected |-> 0, responses |-> <<>>,
                result |-> Raise(Exc("ValueError", FALSE, InterpreterText))]
          ELSE [op |-> "compare_models", pc |-> "running", models |-> models,
                futures |-> [n \in DOMAIN models |->
                               [model |-> models[n], state |-> "running",
                                reply |-> NetworkError(<<>>),
                                result |-> Ok(Null)]],
                collected |-> 0, responses |-> <<>>, result |-> Ok(Null)]
    /\ UNCHANGED <<conversations, active, editing, now, turn, lastOp, session>>

\* A worker thread finishes self.chat(model, messages).
CompareWorkerDone(n, reply, build) ==
    /\ call.op = "compare_models"
    /\ call.pc = "running"
    /\ n \in DOMAIN call.futures
    /\ call.futures[n].state = "running"
    /\ call' = [call EXCEPT !.futures[n].state = "done",
                            !.futures[n].reply = reply,
                            !.futures[n].result = chat(reply, build)]
    /\ UNCHANGED <<conversations, active, editing, now, turn, lastOp, session>>

\* The main thread's future.result() returns for the next future.
CompareCollect ==
    /\ call.op = "compare_models"
    /\ call.pc = "running"
    /\ call.collected < Len(call.futures)
    /\ call.futures[call.collected + 1].state = "done"
    /\ call' = [call EXCEPT
                  !.collected = @ + 1,
                  !.responses = compare_collect(@, call.futures,
                                                call.collected + 1)]
    /\ UNCHANGED <<conversations, active, editing, now, turn, lastOp, session>>

\* The with block is left (shutdown(wait=True)) and responses is returned.
CompareReturn ==
    /\ call.op = "compare_models"
    /\ call.pc = "running"
    /\ call.collected = Len(call.futures)
    /\ \A n \in DOMAIN call.futures : call.futures[n].state = "done"
    /\ call' = [call EXCEPT !.pc = "returned",
                            !.result = Ok(call.responses)]
    /\ UNCHANGED <<conversations, active, editing, now, turn, lastOp, session>>

\* ------------------------------------------------------- chat_with_metrics
Second == 1000000000    \* / 1e9: durations come in nanoseconds

\* x / 1e9 for a JSON number; the replies carry whole seconds.
seconds_of(x) ==
    IF x.t = "num" THEN Ok(Num(x.v \div Second)) ELSE Raise(TypeError)

\* The metrics dict of a successful call.
Metrics(response_time, tokens_per_second, total_duration, eval_duration) ==
    [error |-> FALSE, text |-> <<>>, response_time |-> response_time,
     tokens_per_second |-> tokens_per_second,
     total_duration |-> total_duration, eval_duration |-> eval_duration]

\* {"error": str(e)}
ErrorMetrics(exc) ==
    [error |-> TRUE, text |-> exc.text, response_time |-> 0,
     tokens_per_second |-> 0, total_duration |-> 0, eval_duration |-> 0]

\* eval_count / (eval_duration / 1e9) if eval_duration > 0 else 0
tokens_per_second(data) ==
    LET eval_duration == py_get(data, K.eval_duration, Num(0)).val
        eval_count == py_get(data, K.eval_count, Num(0)).val
    IN  IF eval_duration.t # "num" \/ eval_count.t # "num"
        THEN Raise(TypeError)
        ELSE IF eval_duration.v > 0
        THEN Ok(Num(eval_count.v \div (eval_duration.v \div Second)))
        ELSE Ok(Num(0))

\* elapsed: end_time - start_time, in seconds
chat_with_metrics(reply, build, elapsed) ==
    LET j == fetch_json(reply, build)
        message == py_index(j.val, K.message)
        content == py_index(message.val, K.content)
        total == seconds_of(py_get(j.val, K.total_duration, Num(0)).val)
        load == seconds_of(py_get(j.val, K.load_duration, Num(0)).val)
        prompt_eval ==
            seconds_of(py_get(j.val, K.prompt_eval_duration, Num(0)).val)
        eval == seconds_of(py_get(j.val, K.eval_duration, Num(0)).val)
        tps == tokens_per_second(j.val)
    IN  IF ~j.ok
        THEN (IF j.exc.request
              THEN Ok(<<ErrorString(j.exc), ErrorMetrics(j.exc)>>)
              ELSE j)
        ELSE IF ~message.ok THEN message
        ELSE IF ~content.ok THEN content
        ELSE IF ~total.ok THEN total
        ELSE IF ~load.ok THEN load
        ELSE IF ~prompt_eval.ok THEN prompt_eval
        ELSE IF ~eval.ok THEN eval
        ELSE IF ~tps.ok THEN tps
        ELSE Ok(<<content.val,
                  Metrics(elapsed, tps.val.v, total.val.v, eval.val.v)>>)

MetricsValues ==
    {Obj(<<Pair(K.message, Obj(<<Pair(K.content, Str(<<"x">>))>>)),
           Pair(K.eval_count, Num(4)),
           Pair(K.eval_duration, Num(2 * Second)),
           Pair(K.total_duration, Num(2 * Second))>>),
     Obj(<<Pair(K.message, Obj(<<Pair(K.content, Str(<<"y">>))>>))>>),
     Obj(<<Pair(K.message, Obj(<<Pair(K.content, Str(<<"x">>))>>)),
           Pair(K.total_duration, Null)>>),
     Obj(<<>>)}

Elapsed == {1, 3}

ChatWithMetrics(reply, build, elapsed) ==
    /\ NoCallIn
    /\ call' = Finished("chat_with_metrics",
                        chat_with_metrics(reply, build, elapsed), reply,
                        build)
    /\ UNCHANGED <<conversations, active, editing, now, turn, lastOp, session>>

\* --------------------------------------------------------- benchmark_model
MaxIterations == 2   \* the iterations argument is -1..MaxIterations

RECURSIVE SumOf(_, _)
SumOf(metrics_list, field) ==
    IF metrics_list = <<>> THEN 0
    ELSE Head(metrics_list)[field] + SumOf(Tail(metrics_list), field)

\* sum / count, kept as the quotient's two terms
Quotient(sum, count) == [sum |-> sum, over |-> count]

\* The statements after the loop: {"error": "All benchmark attempts
\* failed"} or the averages over metrics_list.
benchmark_result(metrics_list, iterations) ==
    IF metrics_list = <<>>
    THEN [error |-> TRUE, iterations |-> 0,
          avg_response_time |-> Quotient(0, 0),
          avg_tokens_per_second |-> Quotient(0, 0),
          avg_total_duration |-> Quotient(0, 0),
          avg_eval_duration |-> Quotient(0, 0)]
    ELSE [error |-> FALSE, iterations |-> Len(metrics_list),
          avg_response_time |->
              Quotient(SumOf(metrics_list, "response_time"),
                       Len(metrics_list)),
          avg_tokens_per_second |->
              Quotient(SumOf(metrics_list, "tokens_per_second"),
                       Len(metrics_list)),
          avg_total_duration |->
              Quotient(SumOf(metrics_list, "total_duration"),
                       Len(metrics_list)),
          avg_eval_duration |->
              Quotient(SumOf(metrics_list, "eval_duration"),
                       Len(metrics_list))]

BenchmarkModel(iterations) ==
    /\ NoCallIn
    /\ call' = [op |-> "benchmark_model", pc |-> "loop",
                iterations |-> iterations, calls |-> <<>>,
                metrics_list |-> <<>>,
                result |-> Ok(Null)]
    /\ UNCHANGED <<conversations, active, editing, now, turn, lastOp, session>>

\* One pass of "for _ in range(iterations)".
BenchmarkIteration(reply, build, elapsed) ==
    /\ call.op = "benchmark_model"
    /\ call.pc = "loop"
    /\ Len(call.calls) < call.iterations
    /\ LET r == chat_with_metrics(reply, build, elapsed)
       IN  call' =
             IF ~r.ok
             THEN [call EXCEPT !.calls = Append(@, r), !.pc = "raised",
                               !.result = r]
             ELSE [call EXCEPT
                     !.calls = Append(@, r),
                     !.metrics_list =
                        IF r.val[2].error THEN @ ELSE Append(@, r.val[2])]
    /\ UNCHANGED <<conversations, active, editing, now, turn, lastOp, session>>

BenchmarkReturn ==
    /\ call.op = "benchmark_model"
    /\ call.pc = "loop"
    /\ Len(call.calls) >= call.iterations
    /\ call' = [call EXCEPT
                  !.pc = "returned",
                  !.result = Ok(benchmark_result(call.metrics_list,
                                                 call.iterations))]
    /\ UNCHANGED <<conversations, active, editing, now, turn, lastOp, session>>

\* ------------------------------------- get_model_details, generate_embeddings
Unknown == Str(<<"U", "n", "k", "n", "o", "w", "n">>)

NoDetailsText ==
    <<"C", "o", "u", "l", "d", " ", "n", "o", "t", " ", "r", "e", "t", "r",
      "i", "e", "v", "e", " ", "m", "o", "d", "e", "l", " ", "d", "e", "t",
      "a", "i", "l", "s">>

get_model_info(reply, build) ==
    LET j == fetch_json(reply, build)
    IN  IF ~j.ok /\ j.exc.request THEN Ok(Obj(<<>>)) ELSE j

\* "k" in info
py_in(k, x) ==
    IF x.t = "obj" THEN Ok(HasKey(x, k))
    ELSE IF x.t = "list" THEN Ok(\E n \in DOMAIN x.v : x.v[n] = Str(k))
    ELSE IF x.t = "str" THEN Ok(Contains(x.v, k))
    ELSE Raise(TypeError)

\* info.get("details", {}).get(k, "Unknown")
detail_of(info, k) ==
    LET details == py_get(info, K.details, Obj(<<>>))
    IN  IF ~details.ok THEN details ELSE py_get(details.val, k, Unknown)

\* get_model_details on the info get_model_info returned; the name entry
\* of the result is left out.
get_model_details(info) ==
    IF ~py_truthy(info)
    THEN Ok(Obj(<<Pair(K.error, Str(NoDetailsText))>>))
    ELSE LET size == py_get(info, K.size, Unknown)
             format == detail_of(info, K.format)
             family == detail_of(info, K.family)
             parameter_size == detail_of(info, K.parameter_size)
             quantization_level == detail_of(info, K.quantization_level)
             modified_at == py_get(info, K.modified_at, Unknown)
             details ==
                <<Pair(K.size, size.val), Pair(K.format, format.val),
                  Pair(K.family, family.val),
                  Pair(K.parameter_size, parameter_size.val),
                  Pair(K.quantization_level, quantization_level.val),
                  Pair(K.modified_at, modified_at.val)>>
             template ==
                IF py_in(K.template, info).val
                THEN <<Pair(K.template, py_index(info, K.template).val)>>
                ELSE <<>>
             modelfile ==
                IF py_in(K.modelfile, info).val
                THEN <<Pair(K.modelfile, py_index(info, K.modelfile).val)>>
                ELSE <<>>
         IN  IF ~size.ok THEN size
             ELSE IF ~format.ok THEN format
             ELSE Ok(Obj((details \o template) \o modelfile))

ShowValues ==
    {Obj(<<Pair(K.details, Obj(<<Pair(K.family, Str(<<"l">>))>>)),
           Pair(K.template, Str(<<"t">>))>>),
     Obj(<<Pair(K.details, Null)>>),
     Obj(<<>>),
     Lst(<<Null>>)}

GetModelDetails(reply, build) ==
    /\ NoCallIn
    /\ LET info == get_model_info(reply, build)
       IN  call' = Finished("get_model_details",
                            IF info.ok THEN get_model_details(info.val)
                            ELSE info,
                            reply, build)
    /\ UNCHANGED <<conversations, active, editing, now, turn, lastOp, session>>

generate_embeddings(reply, build) ==
    LET j == fetch_json(reply, build)
    IN  IF ~j.ok THEN (IF j.exc.request THEN Ok(Null) ELSE j)
        ELSE py_get(j.val, K.embedding, Null)

EmbeddingValues ==
    {Obj(<<Pair(K.embedding, Lst(<<Num(1)>>))>>), Obj(<<>>), Lst(<<>>)}

GenerateEmbeddings(reply, build) ==
    /\ NoCallIn
    /\ call' = Finished("generate_embeddings",
                        generate_embeddings(reply, build), reply, build)
    /\ UNCHANGED <<conversations, active, editing, now, turn, lastOp, session>>

\* ------------------------------- is_available, unload_model, keep_model_loaded
\* True and False: bool is a subclass of int, True == 1 and False == 0.
Bool(b) == Num(IF b THEN 1 ELSE 0)

\* The bare except returns False for whatever requests.get raises.
is_available_any_response(reply) == Ok(Bool(reply.kind = "response"))

is_available(reply) ==
    IF reply.kind = "error" THEN Ok(Bool(FALSE))
    ELSE Ok(Bool(reply.status = 200))

\* requests.post(...) with the response dropped: no raise_for_status().
unload_model(reply) ==
    IF reply.kind = "error" THEN Ok(Bool(FALSE)) ELSE Ok(Bool(TRUE))

keep_model_loaded(reply) ==
    IF reply.kind = "error" THEN Ok(Bool(FALSE)) ELSE Ok(Bool(TRUE))

\* The answers to GET /api/tags the probe can get; 204 is a success that is
\* not 200.
ProbeReplies == Replies(TagsValues) \cup {Response(204, NotJson)}

IsAvailable(reply, build) ==
    /\ NoCallIn
    /\ call' = Finished("is_available", is_available(reply), reply, build)
    /\ UNCHANGED <<conversations, active, editing, now, turn, lastOp, session>>

UnloadModel(reply, build) ==
    /\ NoCallIn
    /\ call' = Finished("unload_model", unload_model(reply), reply, build)
    /\ UNCHANGED <<conversations, active, editing, now, turn, lastOp, session>>

KeepModelLoaded(reply, build) ==
    /\ NoCallIn
    /\ call' = Finished("keep_model_loaded", keep_model_loaded(reply), reply,
                        build)
    /\ UNCHANGED <<conversations, active, editing, now, turn, lastOp, session>>

\* The caller goes on to its next call.
CallOver ==
    /\ call.pc \in {"returned", "raised", "ended"}
    /\ call' = NoCall
    /\ UNCHANGED <<conversations, active, editing, now, turn, lastOp, session>>

ClientNext ==
    \/ \E model \in Models, reply \in Replies({Null}) :
          ChatStreamStart(model, reply)
    \/ \E line \in StreamLines : ChatStreamLine(line)
    \/ \E e \in ErrorDescriptions : ChatStreamFail(e)
    \/ ChatStreamEnd
    \/ \E reply \in Replies(TagsValues), build \in Builds :
          ListModels(reply, build)
    \/ \E reply \in Replies(ChatValues), build \in Builds :
          Chat(reply, build)
    \/ \E reply \in Replies(MetricsValues), build \in Builds,
          elapsed \in Elapsed :
          ChatWithMetrics(reply, build, elapsed)
    \/ \E models \in ModelLists : CompareModels(models)
    \/ \E n \in 1..MaxCompare, reply \in Replies(ChatValues),
          build \in Builds :
          CompareWorkerDone(n, reply, build)
    \/ CompareCollect
    \/ CompareReturn
    \/ \E iterations \in (-1)..MaxIterations : BenchmarkModel(iterations)
    \/ \E reply \in Replies(MetricsValues), build \in Builds,
          elapsed \in Elapsed :
          BenchmarkIteration(reply, build, elapsed)
    \/ BenchmarkReturn
    \/ \E reply \in Replies(ShowValues), build \in Builds :
          GetModelDetails(reply, build)
    \/ \E reply \in Replies(EmbeddingValues), build \in Builds :
          GenerateEmbeddings(reply, build)
    \/ \E reply \in ProbeReplies, build \in Builds :
          IsAvailable(reply, build)
    \/ \E reply \in Replies({Obj(<<>>)}) \cup {Response(204, NotJson)},
          build \in Builds :
          UnloadModel(reply, build)
    \/ \E reply \in Replies({Obj(<<>>)}) \cup {Response(204, NotJson)},
          build \in Builds :
          KeepModelLoaded(reply, build)
    \/ CallOver

ClientSpec == Init /\ [][ClientNext]_vars

\* ====================================================== app_production.py
\* One conversation, st.session_state.messages, of {role, content} entries.
MaxProdMsgs == 4      \* messages in st.session_state.messages

\* config.max_message_history: int(os.getenv("MAX_MESSAGE_HISTORY", "100")),
\* here a deployment that sets it to 2.
max_message_history == 2

ProdSystemPrompts == {<<>>, <<" ">>, <<"s">>}

ProdSorryText ==
    SorryText \o <<" ", "P", "l", "e", "a", "s", "e", " ", "t", "r", "y",
                   " ", "a", "g", "a", "i", "n", ".">>

\* str.strip(), for the whitespace the inputs use
RECURSIVE LStrip(_)
LStrip(s) == IF s # <<>> /\ Head(s) = " " THEN LStrip(Tail(s)) ELSE s

RECURSIVE RStrip(_)
RStrip(s) ==
    IF s # <<>> /\ s[Len(s)] = " " THEN RStrip(SubSeq(s, 1, Len(s) - 1))
    ELSE s

Strip(s) == RStrip(LStrip(s))

\* s[-n:] as Python slices: -0 is 0, so n = 0 gives the whole list.
LastN(s, n) ==
    IF n = 0 THEN s
    ELSE IF n > 0
         THEN SubSeq(s, (IF Len(s) > n THEN Len(s) - n ELSE 0) + 1, Len(s))
         ELSE SubSeq(s, (IF -n < Len(s) THEN -n ELSE Len(s)) + 1, Len(s))

\* limit is config.max_message_history, a global of the module.
get_messages_with_system(system_prompt, messages, limit) ==
    (IF system_prompt # <<>> /\ Strip(system_prompt) # <<>>
     THEN <<[role |-> "system", content |-> system_prompt]>>
     ELSE <<>>)
        \o LastN(messages, limit)

ProdIdle == session.pc = "idle"

ProdStreaming == session.pc = "streaming"

\* The top of every script run (lines 96-110): the sidebar asks
\* ollama.is_available(), reply being the server's answer to it, and
\* st.stop() ends the run when it is false.
Available(reply) == py_truthy(is_available(reply).val)

\* The run of a submitted prompt: past the gate the user message is
\* appended, then chat_stream is called.  (get_available_models is cached.)
ProdPrompt(prompt, system_prompt, selected_model, reply, build) ==
    /\ ProdIdle
    /\ Available(reply) => Len(session.messages) + 2 <= MaxProdMsgs
    /\ call' = Finished("is_available", is_available(reply), reply, build)
    /\ LET messages == Append(session.messages,
                              [role |-> "user", content |-> prompt])
       IN  session' =
              IF Available(reply)
              THEN [messages |-> messages, pc |-> "streaming",
                    full_response |-> <<>>, stream |-> "open",
                    request |->
                      <<[model |-> selected_model,
                         messages |-> get_messages_with_system(
                                          system_prompt, messages,
                                          max_message_history)]>>]
              ELSE [session EXCEPT !.pc = "stopped"]
    /\ UNCHANGED <<conversations, active, editing, now, turn, lastOp>>

ProdStreamChunk(chunk) ==
    /\ ProdStreaming
    /\ session.stream = "open"
    /\ Len(session.full_response) < MaxChunks
    /\ session' = [session EXCEPT !.full_response = @ \o chunk]
    /\ UNCHANGED <<conversations, active, editing, now, turn, lastOp, call>>

ProdStreamTransportError(e) ==
    /\ ProdStreaming
    /\ session.stream = "open"
    /\ session' = [session EXCEPT !.full_response = @ \o (ErrorPrefix \o e),
                                  !.stream = "errored"]
    /\ UNCHANGED <<conversations, active, editing, now, turn, lastOp, call>>

\* The stream is exhausted; "Add to history".
ProdStreamEnd ==
    /\ ProdStreaming
    /\ session.stream \in {"open", "errored"}
    /\ session' =
          [session EXCEPT
             !.messages = Append(@, [role |-> "assistant",
                                     content |-> session.full_response]),
             !.pc = "done", !.stream = "ended"]
    /\ UNCHANGED <<conversations, active, editing, now, turn, lastOp, call>>

\* except Exception: the apology is the response; "Add to history".
ProdStreamRaise ==
    /\ ProdStreaming
    /\ session.stream = "open"
    /\ session' =
          [session EXCEPT
             !.messages = Append(@, [role |-> "assistant",
                                     content |-> ProdSorryText]),
             !.full_response = ProdSorryText,
             !.pc = "done", !.stream = "raised"]
    /\ UNCHANGED <<conversations, active, editing, now, turn, lastOp, call>>

\* A widget event stops the streaming run.
ProdAbandon ==
    /\ ProdStreaming
    /\ session' = [session EXCEPT !.pc = "idle", !.full_response = <<>>,
                                  !.stream = "none", !.request = <<>>]
    /\ call' = NoCall
    /\ UNCHANGED <<conversations, active, editing, now, turn, lastOp>>

\* The run is over: the end of the script, or st.stop().
ProdRunEnd ==
    /\ session.pc \in {"done", "stopped"}
    /\ session' = [session EXCEPT !.pc = "idle", !.full_response = <<>>,
                                  !.stream = "none", !.request = <<>>]
    /\ call' = NoCall
    /\ UNCHANGED <<conversations, active, editing, now, turn, lastOp>>

\* The run of a click on "Clear Chat": past the gate, messages = [] and
\* st.rerun().
ClearChat(reply, build) ==
    /\ ProdIdle
    /\ IF Available(reply)
       THEN /\ session' = NoSession
            /\ call' = NoCall
       ELSE /\ session' = [session EXCEPT !.pc = "stopped"]
            /\ call' = Finished("is_available", is_available(reply), reply,
                                build)
    /\ UNCHANGED <<conversations, active, editing, now, turn, lastOp>>

ProdNext ==
    \/ \E prompt \in Prompts, system_prompt \in ProdSystemPrompts,
          selected_model \in Models, reply \in ProbeReplies,
          build \in Builds :
          ProdPrompt(prompt, system_prompt, selected_model, reply, build)
    \/ \E chunk \in Chunks : ProdStreamChunk(chunk)
    \/ \E e \in ErrorDescriptions : ProdStreamTransportError(e)
    \/ ProdStreamEnd
    \/ ProdStreamRaise
    \/ ProdAbandon
    \/ ProdRunEnd
    \/ \E reply \in ProbeReplies, build \in Builds : ClearChat(reply, build)

ProdSpec == Init /\ [][ProdNext]_vars

\* ===================================================== the context of a turn
\* The message list a turn sends to the model, computed by the three places
\* that build one, on every input: turn holds the run's system_prompt, the
\* history with the prompt just appended (messages), and the deployment's
\* config.max_message_history (limit).
MaxHistoryLimit == 3  \* config.max_message_history is 0..MaxHistoryLimit

\* The histories a prompt can leave: the prompt is the last message.
Histories ==
    {h \in UNION {[1..n -> {[role |-> "user", content |-> ShortPrompt],
                            [role |-> "assistant", content |-> <<"x">>]}] :
                     n \in 1..MaxProdMsgs} :
        h[Len(h)].role = "user"}

ContextInit ==
    /\ now = 0
    /\ active = DefaultId
    /\ conversations = init_conversation_state(<<>>, DefaultId, 0)
    /\ editing = {}
    /\ lastOp = [op |-> "init", i |-> 0, id |-> DefaultId]
    /\ session = NoSession
    /\ call = NoCall
    /\ \E system_prompt \in ProdSystemPrompts, messages \in Histories,
          limit \in 0..MaxHistoryLimit :
          turn = [pc |-> "input", mode |-> "none",
                  system_prompt |-> system_prompt, messages |-> messages,
                  limit |-> limit, context |-> <<>>]

\* app.py, single mode (lines 585-586)
SingleContext ==
    /\ turn.pc = "input"
    /\ turn' = [turn EXCEPT
                  !.pc = "built", !.mode = "single",
                  !.context = single_messages_for_model(turn.system_prompt,
                                                        turn.messages)]
    /\ UNCHANGED <<conversations, active, editing, now, lastOp, session, call>>

\* app.py, compare mode, for each model (lines 554-556)
CompareContext ==
    /\ turn.pc = "input"
    /\ turn' = [turn EXCEPT
                  !.pc = "built", !.mode = "compare",
                  !.context = compare_messages_for_model(
                                  turn.system_prompt, turn.messages,
                                  turn.messages[Len(turn.messages)].content)]
    /\ UNCHANGED <<conversations, active, editing, now, lastOp, session, call>>

\* app_production.py (line 295)
ProductionContext ==
    /\ turn.pc = "input"
    /\ turn' = [turn EXCEPT
                  !.pc = "built", !.mode = "production",
                  !.context = get_messages_with_system(
                                  turn.system_prompt, turn.messages,
                                  turn.limit)]
    /\ UNCHANGED <<conversations, active, editing, now, lastOp, session, call>>

ContextNext ==
    \/ SingleContext
    \/ CompareContext
    \/ ProductionContext

ContextSpec == ContextInit /\ [][ContextNext]_vars

\* ================================================================== claims
MessagesOf(convs, id) == Get(convs, id).messages

\* Every conversation but id is the same entry before and after the step.
OthersUnchanged(id) ==
    /\ Keys(conversations') = Keys(conversations)
    /\ \A other \in Keys(conversations) \ {id} :
          Get(conversations', other) = Get(conversations, other)

\* C1: in every reachable state the conversation mapping is non-empty and
\* active_conversation is one of its keys.
C1_StoreNeverEmpty ==
    /\ Len(conversations) > 0
    /\ active \in Keys(conversations)

\* The delete button has removed the active conversation.
C1_Witness ==
    /\ lastOp.op = "DeleteConversation"
    /\ lastOp.i = 1
    /\ lastOp.id \notin Keys(conversations)

\* C2: every add_message call (the user message of Prompt, the assistant
\* message at the end of the turn) adds exactly one message at the end of
\* the active conversation, with the role and content of the call, and
\* leaves every earlier message, and every other conversation, as it was.
C2_AppendOnly ==
    [][(turn'.pc # turn.pc /\ turn'.pc \in {"streaming", "done"})
        => LET old == MessagesOf(conversations, active)
               new == MessagesOf(conversations', active)
           IN  /\ active' = active
               /\ Len(new) = Len(old) + 1
               /\ \A j \in 1..Len(old) : new[j] = old[j]
               /\ new[Len(new)].role =
                     (IF turn'.pc = "streaming" THEN "user" ELSE "assistant")
               /\ new[Len(new)].content =
                     (IF turn'.pc = "streaming" THEN turn'.prompt
                      ELSE IF turn'.mode = "single" THEN turn'.full_response
                      ELSE saved_response(turn'.responses,
                                          turn'.selected_model))
               /\ OthersUnchanged(active)]_vars

\* Three add_message calls on one conversation: a turn abandoned after its
\* user message, then a whole turn.
C2_Witness ==
    /\ turn.pc = "done"
    /\ Len(MessagesOf(conversations, active)) = 3
    /\ MessagesOf(conversations, active)[1].content = LongPrompt
    /\ MessagesOf(conversations, active)[2].content = ShortPrompt

\* C3: every turn that runs to its end, however the stream ends, leaves
\* exactly one assistant message right after the turn's user message.
C3_TurnEndsWithAssistant ==
    turn.pc \in {"done", "failed"}
        => LET msgs == MessagesOf(conversations, active)
           IN  /\ Len(msgs) >= 2
               /\ msgs[Len(msgs)].role = "assistant"
               /\ msgs[Len(msgs) - 1].role = "user"
               /\ msgs[Len(msgs) - 1].content = turn.prompt

\* The messages of a request without its leading system message.
History(messages) ==
    IF messages # <<>> /\ messages[1].role = "system"
    THEN Tail(messages)
    ELSE messages

\* C4: the history of every request of a turn is the conversation's log as
\* {role, content} pairs, up to and including the turn's user prompt, once.
C4_HistoryIsLog ==
    turn.pc = "streaming"
        => \A n \in DOMAIN turn.requests :
              History(turn.requests[n].messages) =
                  RoleContent(MessagesOf(conversations, active))
\* C5: the Regenerate button replays the turn: its step dispatches a model
\* call on the shortened history, with no further user prompt.
C5_RegenerateReplays ==
    [][(\E i \in 0..(MaxMsgs - 1) : Regenerate(i))
        => (turn'.pc = "streaming" /\ turn'.requests # <<>>)]_vars

C7_EditContentOnly ==
    [][\A i \in 0..(MaxMsgs - 1), text \in EditTexts :
          SaveEdit(i, text)
            => LET old == MessagesOf(conversations, active)
                   new == MessagesOf(conversations', active)
               IN  /\ Len(new) = Len(old)
                   /\ new[i + 1].content = text
                   /\ new[i + 1].id = old[i + 1].id
                   /\ new[i + 1].role = old[i + 1].role
                   /\ new[i + 1].timestamp = old[i + 1].timestamp
                   /\ \A j \in 1..Len(old) : j # i + 1 => new[j] = old[j]
                   /\ active' = active
                   /\ OthersUnchanged(active)]_vars

\* Save has replaced the long first prompt of a conversation (its title
\* still shows it) that has a later message.
C7_Witness ==
    /\ lastOp.op = "SaveEdit"
    /\ lastOp.i = 0
    /\ Len(MessagesOf(conversations, active)) >= 2
    /\ MessagesOf(conversations, active)[1].content = ShortPrompt
    /\ Get(conversations, active).title = TitleOf(LongPrompt)

\* C8: New Conversation inserts an empty conversation titled 'New Chat'
\* under an id that was no key of the store, makes it active, adds one to
\* the number of conversations and leaves every existing conversation's
\* messages as they were.
C8_NewConversationFreshId ==
    [][NewConversation
        => /\ new_conversation_id(now) \notin Keys(conversations)
           /\ Len(conversations') = Len(conversations) + 1
           /\ active' = new_conversation_id(now)
           /\ MessagesOf(conversations', active') = <<>>
           /\ Get(conversations', active').title = NewChatTitle
           /\ \A id \in Keys(conversations) :
                 /\ id \in Keys(conversations')
                 /\ MessagesOf(conversations', id) =
                       MessagesOf(conversations, id)]_vars

\* The response the claim has a compare turn save: the selected model's
\* when it is among the compared models, else the first compared model's.
PrimaryResponse ==
    LET primary ==
          IF \E n \in DOMAIN turn.models : turn.models[n] = turn.selected_model
          THEN turn.selected_model
          ELSE turn.models[1]
    IN  turn.responses[CHOOSE n \in DOMAIN turn.responses :
                           turn.responses[n].model = primary].text

\* C9: a compare turn that runs to its end has appended exactly one
\* assistant message after its user message, holding the primary model's
\* response.
C9_CompareSavesPrimary ==
    (turn.mode = "compare" /\ turn.pc \in {"done", "failed"})
        => LET msgs == MessagesOf(conversations, active)
           IN  /\ Len(msgs) >= 2
               /\ msgs[Len(msgs) - 1].role = "user"
               /\ msgs[Len(msgs) - 1].content = turn.prompt
               /\ msgs[Len(msgs)].role = "assistant"
               /\ msgs[Len(msgs)].content = PrimaryResponse

C11_UserThenAssistant ==
    LET msgs == MessagesOf(conversations, active)
        k == lastOp.i
    IN  /\ turn.pc \in {"streaming", "failed"}
              => /\ Len(msgs) = k + 1
                 /\ msgs[k + 1].role = "user"
                 /\ msgs[k + 1].content = turn.prompt
                 /\ turn.requests # <<>>
                 /\ \A n \in DOMAIN turn.requests :
                       Take(History(turn.requests[n].messages), k + 1) =
                           RoleContent(msgs)
        /\ turn.pc = "done"
              => /\ Len(msgs) = k + 2
                 /\ msgs[k + 1].role = "user"
                 /\ msgs[k + 1].content = turn.prompt
                 /\ msgs[k + 2].role = "assistant"
                 /\ turn.stream \in {"ended", "raised"}
                 /\ turn.mode = "compare"
                       => Len(turn.responses) = Len(turn.models)

\* A compare turn over two models has run to its end on a conversation
\* that already held a message.
C11_Witness ==
    /\ turn.pc = "done"
    /\ turn.mode = "compare"
    /\ Len(turn.models) = 2
    /\ lastOp.i = 1
    /\ Len(MessagesOf(conversations, active)) = 3

\* C12: every assistant message of every conversation has a user message
\* right before it, so no conversation begins with an assistant message,
\* and the conversation Regenerate has cut is not empty.
C12_AssistantFollowsUser ==
    /\ \A id \in Keys(conversations) :
          \A n \in DOMAIN MessagesOf(conversations, id) :
             MessagesOf(conversations, id)[n].role = "assistant"
                => /\ n > 1
                   /\ MessagesOf(conversations, id)[n - 1].role = "user"
    /\ lastOp.op = "Regenerate"
          => MessagesOf(conversations, lastOp.id) # <<>>

\* Regenerate on the reply of a turn that followed an abandoned turn: two
\* user messages are left.
C12_Witness ==
    /\ lastOp.op = "Regenerate"
    /\ lastOp.i = 2
    /\ Len(MessagesOf(conversations, lastOp.id)) = 2
    /\ MessagesOf(conversations, lastOp.id)[1].role = "user"
    /\ MessagesOf(conversations, lastOp.id)[2].role = "user"

\* C11 for app_production.py: the same order in its chat handler.
Prod_UserThenAssistant ==
    LET msgs == session.messages
    IN  /\ session.pc = "streaming"
              => /\ msgs # <<>>
                 /\ msgs[Len(msgs)].role = "user"
                 /\ session.request # <<>>
                 /\ LET sent == session.request[1].messages
                    IN  sent[Len(sent)] = msgs[Len(msgs)]
        /\ session.pc = "done"
              => /\ Len(msgs) >= 2
                 /\ msgs[Len(msgs) - 1].role = "user"
                 /\ msgs[Len(msgs)].role = "assistant"
                 /\ session.stream \in {"ended", "raised"}

\* C14: the delete button on the only conversation of the store signals a
\* LastConversation outcome and leaves the mapping, the messages and the
\* active pointer as they were.
C14_DeleteLastSignalled ==
    [][\A conv_id \in Keys(conversations) :
          (DeleteConversation(conv_id) /\ Len(RunStart) = 1)
            => /\ delete_signal(RunStart, conv_id) = "LastConversation"
               /\ conversations' = RunStart
               /\ active' = active]_vars

\* C15: the append of the first message of a conversation, of content c,
\* sets the title to c when c has at most 50 characters and to its first 50
\* characters followed by '...' otherwise; a step that leaves the
\* conversation with messages (append, edit, regenerate) keeps the title.
C15_TitleFromFirstMessage ==
    [][\A id \in Keys(conversations) \cap Keys(conversations') :
          LET old == Get(conversations, id)
              new == Get(conversations', id)
          IN  /\ (old.messages = <<>> /\ new.messages # <<>>)
                    => LET c == new.messages[1].content
                       IN  /\ Len(new.messages) = 1
                           /\ Len(c) <= 50 => new.title = c
                           /\ Len(c) > 50
                                 => new.title =
                                       SubSeq(c, 1, 50) \o <<".", ".", ".">>
              /\ (old.messages # <<>> /\ new.messages # <<>>)
                    => new.title = old.title]_vars

\* A conversation opened by the 51-character prompt has the 53-character
\* title, and keeps it after Regenerate has cut a later message.
C15_Witness ==
    /\ lastOp.op = "Regenerate"
    /\ MessagesOf(conversations, lastOp.id) # <<>>
    /\ MessagesOf(conversations, lastOp.id)[1].content = LongPrompt
    /\ Len(Get(conversations, lastOp.id).title) = 53
    /\ Get(conversations, lastOp.id).title[51] = "."

\* The line carries a non-empty content string.
CarriesContent(line) ==
    /\ ~line.empty
    /\ line.json
    /\ line.value.t = "obj"
    /\ \E n \in DOMAIN line.value.v :
          /\ line.value.v[n].k = K.message
          /\ line.value.v[n].x.t = "obj"
          /\ \E m \in DOMAIN line.value.v[n].x.v :
                /\ line.value.v[n].x.v[m].k = K.content
                /\ line.value.v[n].x.v[m].x.t = "str"
                /\ line.value.v[n].x.v[m].x.v # <<>>

\* The content strings the lines carry, in order.
Received(lines) ==
    LET carrying == SelectSeq(lines, CarriesContent)
    IN  [n \in DOMAIN carrying |->
            Lookup(Lookup(carrying[n].value, K.message), K.content)]

\* C16: when the transport fails, before the first line or between two
\* lines, chat_stream has yielded the fragments received until then, in
\* order, and after them the one fragment 'Error: <description>'; nothing
\* is yielded after it, the generator ends and raises nothing.  Until a
\* failure it has yielded the fragments received.
C16_ErrorFragmentLast ==
    call.op = "chat_stream"
        => /\ call.exc.request
                => /\ call.pc \in {"errored", "ended"}
                   /\ call.out =
                         Append(Received(call.lines),
                                Str(<<"E", "r", "r", "o", "r", ":", " ">>
                                        \o call.exc.text))
           /\ call.exc = NoExc => call.out = Received(call.lines)
           /\ call.pc = "raised" => ~call.exc.request

\* The connection broke after the first fragment: the generator has ended,
\* having yielded the fragment and then the error fragment.
C16_Witness ==
    /\ call.op = "chat_stream"
    /\ call.pc = "ended"
    /\ call.exc.request
    /\ Len(call.out) = 2
    /\ call.out[1] = Str(<<"x">>)
    /\ call.out[2] = Str(ErrorPrefix \o <<"t">>)

\* C17: none of chat, chat_stream, chat_with_metrics, compare_models,
\* benchmark_model, get_model_details and generate_embeddings lets an
\* exception reach its caller, whatever the server replies and whatever
\* the arguments.
C17_NoCallRaises ==
    call.op \in {"chat", "chat_stream", "chat_with_metrics",
                 "compare_models", "benchmark_model", "get_model_details",
                 "generate_embeddings"}
        => call.pc # "raised"

\* The reply is a 200 whose body is an object with a list under 'models',
\* every entry an object with a 'name'.
WellFormedTags(reply) ==
    /\ reply.kind = "response"
    /\ reply.status = 200
    /\ reply.body.json
    /\ reply.body.value.t = "obj"
    /\ HasKey(reply.body.value, K.models)
    /\ Lookup(reply.body.value, K.models).t = "list"
    /\ \A n \in DOMAIN Lookup(reply.body.value, K.models).v :
          /\ Lookup(reply.body.value, K.models).v[n].t = "obj"
          /\ HasKey(Lookup(reply.body.value, K.models).v[n], K.name)

\* C18: list_models never raises; it returns the names in server order for
\* a well-formed reply and the empty list for every other.
C18_ListModelsNeverRaises ==
    call.op = "list_models"
        => /\ call.pc = "returned"
           /\ IF WellFormedTags(call.reply)
              THEN LET entries == Lookup(call.reply.body.value, K.models).v
                   IN  call.result.val =
                          [n \in DOMAIN entries |->
                              Lookup(entries[n], K.name)]
              ELSE call.result.val = <<>>

\* The reply is a 200 whose body has message.content.
GoodChatReply(reply) ==
    /\ reply.kind = "response"
    /\ reply.status = 200
    /\ reply.body.json
    /\ reply.body.value.t = "obj"
    /\ HasKey(reply.body.value, K.message)
    /\ Lookup(reply.body.value, K.message).t = "obj"
    /\ HasKey(Lookup(reply.body.value, K.message), K.content)

Distinct(models) ==
    \A j, k \in DOMAIN models : j # k => models[j] # models[k]

\* C19: compare_models over a non-empty list of distinct models never
\* raises; when it returns every call has finished, the keys are the models
\* asked for, and each model's value comes from the reply to its own call:
\* the content of a good reply, an 'Error: ...' string for any other.
C19_EachModelItsOwnResult ==
    (call.op = "compare_models" /\ call.models # <<>>
        /\ Distinct(call.models))
        => /\ call.pc # "raised"
           /\ call.pc = "returned"
                => /\ \A n \in DOMAIN call.futures :
                         call.futures[n].state = "done"
                   /\ Len(call.result.val) = Len(call.models)
                   /\ {call.result.val[n].model :
                          n \in DOMAIN call.result.val} =
                         {call.models[n] : n \in DOMAIN call.models}
                   /\ \A n \in DOMAIN call.models :
                         \E m \in DOMAIN call.result.val :
                            /\ call.result.val[m].model = call.models[n]
                            /\ LET reply == call.futures[n].reply
                                   value == call.result.val[m].response
                               IN  IF GoodChatReply(reply)
                                   THEN value =
                                          Lookup(Lookup(reply.body.value,
                                                        K.message),
                                                 K.content)
                                   ELSE /\ value.t = "str"
                                        /\ Len(value.v) >= 7
                                        /\ SubSeq(value.v, 1, 7) =
                                              <<"E", "r", "r", "o", "r",
                                                ":", " ">>

\* Models a and b were compared; a's reply was good and b's call failed on
\* the network: a has its content, b its error string.
C19_Witness ==
    /\ call.op = "compare_models"
    /\ call.pc = "returned"
    /\ call.models = <<"a", "b">>
    /\ GoodChatReply(call.futures[1].reply)
    /\ call.futures[2].reply.kind = "error"
    /\ call.result.val =
          <<[model |-> "a", response |-> Str(<<"x">>)],
            [model |-> "b", response |-> Str(ErrorPrefix \o <<"t">>)]>>

\* The successful results among the calls made: those whose metrics have
\* no error.
Successes(calls) ==
    SelectSeq(calls, LAMBDA r : r.ok /\ ~r.val[2].error)

\* C20: benchmark_model makes exactly n calls, one after the other, and
\* returns: with s >= 1 successes 'iterations' = s and each average the sum
\* over the successes divided by s; with none the error result.
C20_AveragesOverSuccesses ==
    call.op = "benchmark_model"
        => /\ call.pc # "raised"
           /\ call.pc = "returned"
                => LET n == call.iterations
                       good == Successes(call.calls)
                       s == Len(good)
                       result == call.result.val
                   IN  /\ Len(call.calls) = (IF n > 0 THEN n ELSE 0)
                       /\ s = 0 => result.error
                       /\ s >= 1
                            => /\ ~result.error
                               /\ result.iterations = s
                               /\ result.avg_response_time =
                                     [sum |-> SumOf([k \in 1..s |->
                                                 good[k].val[2]],
                                                    "response_time"),
                                      over |-> s]
                               /\ result.avg_total_duration =
                                     [sum |-> SumOf([k \in 1..s |->
                                                 good[k].val[2]],
                                                    "total_duration"),
                                      over |-> s]
                               /\ result.avg_tokens_per_second.over = s
                               /\ result.avg_eval_duration.over = s

\* C21: in a single-model turn the display after each fragment is the
\* display before it followed by that fragment (so after the j-th it is
\* fragments 1..j in emission order), the assistant message the turn
\* commits has as content the text accumulated from the fragments, a final
\* 'Error: ...' fragment included, and the turn makes one chat_stream call.
C21_SingleTurnConcatenation ==
    [][(turn.mode = "single" /\ Streaming /\ turn' # NoTurn)
          => /\ Len(turn.requests) = 1
             /\ turn'.requests = turn.requests
             /\ (turn'.pc = "streaming" /\ turn' # turn)
                   => \E fragment \in Chunks \cup
                            {ErrorPrefix \o e : e \in ErrorDescriptions} :
                         turn'.full_response = turn.full_response \o fragment
             /\ turn'.pc = "done"
                   => LET messages == MessagesOf(conversations', active)
                          before == MessagesOf(conversations, active)
                      IN  /\ Len(messages) = Len(before) + 1
                          /\ messages[Len(messages)].role = "assistant"
                          /\ messages[Len(messages)].content =
                                turn.full_response]_vars

\* A system prompt with at least one non-whitespace character.
NonBlank(system_prompt) ==
    \E n \in DOMAIN system_prompt : system_prompt[n] # " "

\* C22: the context a turn sends starts with a system message if and only
\* if the system prompt is non-blank, in app.py's single and compare modes
\* and in app_production.py.
C22_SystemMessageIffNonBlank ==
    turn.pc = "built"
        => ((turn.context # <<>> /\ turn.context[1].role = "system")
               <=> NonBlank(turn.system_prompt))

\* The server accepted the request: it answered with a 2xx status.
Accepted(reply) ==
    reply.kind = "response" /\ reply.status >= 200 /\ reply.status < 300

\* C24: unload_model and keep_model_loaded return a boolean and never
\* raise: true when the server accepted the request, false on a network
\* failure, a timeout or a non-2xx answer.
C24_KeepAliveSuccessFlag ==
    call.op \in {"unload_model", "keep_model_loaded"}
        => /\ call.pc = "returned"
           /\ call.result = Ok(Bool(Accepted(call.reply)))

\* C23: is_available returns, never raises, and returns true only for an
\* answer with status 200; a script run in which it returns false stops
\* there: it has issued no chat_stream request, issues none afterwards and
\* appends no message.
C23_UnavailableRunStops ==
    [][/\ call'.op = "is_available"
            => /\ call'.pc = "returned"
               /\ py_truthy(call'.result.val)
                     <=> (call'.reply.kind = "response"
                            /\ call'.reply.status = 200)
               /\ ~py_truthy(call'.result.val)
                     => /\ session'.pc = "stopped"
                        /\ session'.request = <<>>
                        /\ session'.messages = session.messages
       /\ session.pc = "stopped"
            => /\ session'.pc = "idle"
               /\ session'.request = <<>>
               /\ session'.messages = session.messages]_vars

\* A prompt or a click while the server answers 500: the run has stopped
\* with the history it found.
C23_Witness ==
    /\ session.pc = "stopped"
    /\ session.messages # <<>>
    /\ call.op = "is_available"
    /\ call.reply.kind = "response"
    /\ call.reply.status = 500

\* The same letter, whatever the case.
SameLetter(a, b) ==
    \/ a = b
    \/ \E n \in DOMAIN Letters.upper :
          \/ (a = Letters.upper[n] /\ b = Letters.lower[n])
          \/ (a = Letters.lower[n] /\ b = Letters.upper[n])

\* s contains q ignoring case.
ContainsIgnoringCase(s, q) ==
    \E k \in 0..(Len(s) - Len(q)) :
        \A j \in 1..Len(q) : SameLetter(s[k + j], q[j])

\* The places <<c, n>> (conversation c of the store, its message n) whose
\* message matches q.
Matching(convs, q) ==
    {p \in UNION {{<<c, n>> : n \in DOMAIN convs[c].messages} :
                     c \in DOMAIN convs} :
        ContainsIgnoringCase(convs[p[1]].messages[p[2]].content, q)}

\* p is before q in conversation order, then message order.
Before(p, q) == p[1] < q[1] \/ (p[1] = q[1] /\ p[2] < q[2])

\* C25: search_messages(q) has one entry per message of the store whose
\* content contains q ignoring case, and no other entry: its k-th entry is
\* the k-th matching message in conversation order then message order,
\* with the id and the title of the conversation that holds it.  The result
\* is a function of the store and q alone.
C25_SearchExact ==
    \A q \in Queries :
        LET results == search_messages(conversations, q)
            places == Matching(conversations, q)
        IN  /\ Len(results) = Cardinality(places)
            /\ \A p \in places :
                  LET k == Cardinality({o \in places : Before(o, p)}) + 1
                      conv == conversations[p[1]]
                  IN  results[k] =
                         [conversation |-> conv.id,
                          message |-> conv.messages[p[2]],
                          context |-> conv.title]

\* Two conversations hold a message that matches 'h' ('Hi' in both), one
\* of them also a message that does not; the user went to the second
\* result.
C25_Witness ==
    LET results == search_messages(conversations, <<"h">>)
    IN  /\ Len(results) = 2
        /\ results[1].conversation # results[2].conversation
        /\ TotalMessages(conversations) = 3
        /\ lastOp.op = "GoToSearchResult"
        /\ active = results[2].conversation

\* C26: the delete button of conversation X, in a store of at least two
\* conversations, removes X and nothing else: every other conversation is
\* in the store afterwards with the messages, title and timestamps it had;
\* the active pointer is unchanged when X was not the active conversation
\* and is a conversation of the store when it was.
C26_DeleteRemovesExactlyOne ==
    [][\A conv_id \in Keys(conversations) :
          (DeleteConversation(conv_id) /\ Len(RunStart) > 1)
            => /\ Keys(conversations') = Keys(RunStart) \ {conv_id}
               /\ Len(conversations') = Len(RunStart) - 1
               /\ \A id \in Keys(conversations) \ {conv_id} :
                     Get(conversations', id) = Get(conversations, id)
               /\ conv_id # active => active' = active
               /\ conv_id = active => active' \in Keys(conversations')]_vars

\* Of three conversations one that was not the active one has been
\* deleted; the two that stay have their messages.
C26_Witness ==
    /\ lastOp.op = "DeleteConversation"
    /\ lastOp.i = 0
    /\ lastOp.id \notin Keys(conversations)
    /\ Len(conversations) = 2
    /\ \A id \in Keys(conversations) : Len(MessagesOf(conversations, id)) = 2

\* C27: from the append of a turn's user message to the append of its
\* assistant message the active pointer is the conversation the prompt was
\* submitted in, and the assistant message is appended to that
\* conversation, whose message before it is still the turn's prompt; no
\* other conversation changes.
C27_ResponseInPromptConversation ==
    [][/\ turn'.pc # "idle"
            => /\ lastOp'.op = "Prompt"
               /\ active' = lastOp'.id
               /\ turn'.pc = "streaming" =>
                     LET log == MessagesOf(conversations', lastOp'.id)
                     IN  /\ Len(log) = lastOp'.i + 1
                         /\ log[Len(log)].role = "user"
                         /\ log[Len(log)].content = turn'.prompt
       /\ (Streaming /\ turn'.pc = "done")
            => LET before == MessagesOf(conversations, lastOp.id)
                   after == MessagesOf(conversations', lastOp.id)
               IN  /\ after = Append(before, after[Len(after)])
                   /\ after[Len(after)].role = "assistant"
                   /\ OthersUnchanged(lastOp.id)]_vars

\* A turn submitted in the second conversation of the store has committed
\* its response there; the first conversation holds an earlier prompt.
C27_Witness ==
    /\ turn.pc = "done"
    /\ Len(conversations) = 2
    /\ active = conversations[2].id
    /\ Len(conversations[1].messages) = 1
    /\ Len(conversations[2].messages) = 2
    /\ conversations[2].messages[2].role = "assistant"

\* C28: a message is in edit mode (the flag of its index is set while its
\* conversation is the active one), and so open to Save, only if Edit was
\* pressed on that same message.  No button has been pressed on a message
\* that a step has just appended, so that message is not in edit mode.
C28_EditModeOnlyAfterEdit ==
    [][\A id \in Keys(conversations) \cap Keys(conversations') :
          LET before == MessagesOf(conversations, id)
              after == MessagesOf(conversations', id)
          IN  (id = active' /\ Len(after) = Len(before) + 1)
                 => Len(before) \notin editing']_vars

\* C29: the context get_messages_with_system builds holds, besides the
\* optional system message, at most max_message_history messages of the
\* history; they are its most recent ones in their order, and for a limit
\* of at least 1 the last of them is the prompt just appended.
C29_ContextHistoryWindow ==
    (turn.pc = "built" /\ turn.mode = "production")
        => LET system == IF turn.context # <<>>
                              /\ turn.context[1].role = "system"
                         THEN 1 ELSE 0
               history == SubSeq(turn.context, system + 1, Len(turn.context))
               count == Len(history)
               total == Len(turn.messages)
           IN  /\ count <= turn.limit
               /\ count <= total
               /\ history = SubSeq(turn.messages, total - count + 1, total)
               /\ turn.limit >= 1
                     => /\ count >= 1
                        /\ history[count] = turn.messages[total]

====
